---- MODULE Spec2Model ----
(***************************************************************************)
(* Model of the BehterCV backend (src/backend/main.py): the handler of     *)
(* POST /analyze-resume, the PDF text extractor with its line filter, the  *)
(* call to the external model and the normalisation of its reply.          *)
(*                                                                         *)
(* Text is a sequence of characters, each the string holding it.  An HTTP  *)
(* response is a record [status, detail, body]; detail and body are        *)
(* sequences.                                                              *)
(***************************************************************************)
EXTENDS Integers, Sequences, FiniteSets, TLC

VARIABLES JOBS_CONTEXT, requests

vars == <<JOBS_CONTEXT, requests>>

(***************************************************************************)
(* Bounds of the model.                                                    *)
(***************************************************************************)
NumRequests == 2      \* requests in flight in the pipeline specification
MaxAlnum == 3         \* most alphanumeric characters in a generated line
MaxOther == 7         \* most separator characters in a generated line
MaxPad == 1           \* most spaces on each side of a generated line
MaxPages == 2         \* most pages in a generated document
MaxTextLen == 4       \* longest generated model output (before fencing)

(***************************************************************************)
(* Program constants.                                                      *)
(***************************************************************************)
RatioNum == 3         \* the threshold 0.3 of the line filter, as 3/10
RatioDen == 10
ShortLen == 5         \* lines shorter than this are kept whatever the ratio
ContextLimit == 50    \* JOBS_CONTEXT[:50]
JsonFenceLen == 7     \* response_text[7:]
FenceLen == 3         \* response_text[3:], response_text[:-3]

(***************************************************************************)
(* Python string primitives.                                               *)
(***************************************************************************)
\* re: the class [a-zA-Z0-9]
AlnumChars ==
    {"a","b","c","d","e","f","g","h","i","j","k","l","m",
     "n","o","p","q","r","s","t","u","v","w","x","y","z",
     "A","B","C","D","E","F","G","H","I","J","K","L","M",
     "N","O","P","Q","R","S","T","U","V","W","X","Y","Z",
     "0","1","2","3","4","5","6","7","8","9"}

\* the characters str.strip() removes (those the model's texts can hold)
SpaceChars == {" ", "\n", "\t", "\r"}

RECURSIVE LStrip(_)
LStrip(s) ==
    IF s # <<>> /\ Head(s) \in SpaceChars THEN LStrip(Tail(s)) ELSE s

RECURSIVE RStrip(_)
RStrip(s) ==
    IF s # <<>> /\ s[Len(s)] \in SpaceChars
    THEN RStrip(SubSeq(s, 1, Len(s) - 1))
    ELSE s

\* str.strip()
Strip(s) == RStrip(LStrip(s))

\* str.startswith(p), str.endswith(p)
StartsWith(s, p) == Len(s) >= Len(p) /\ SubSeq(s, 1, Len(p)) = p
EndsWith(s, p) == Len(s) >= Len(p) /\ SubSeq(s, Len(s) - Len(p) + 1, Len(s)) = p

\* s[n:] and s[:-n]
DropFirst(s, n) == IF n >= Len(s) THEN <<>> ELSE SubSeq(s, n + 1, Len(s))
DropLast(s, n) == IF n >= Len(s) THEN <<>> ELSE SubSeq(s, 1, Len(s) - n)

\* str.split('\n'): the pieces between newlines; "" splits to [""]
RECURSIVE SplitLines(_)
SplitLines(s) ==
    LET nl == {i \in 1..Len(s) : s[i] = "\n"}
    IN  IF nl = {} THEN <<s>>
        ELSE LET i == CHOOSE k \in nl : \A m \in nl : k <= m
             IN  <<SubSeq(s, 1, i - 1)>> \o SplitLines(DropFirst(s, i))

\* "\n".join(lines)
RECURSIVE JoinLines(_)
JoinLines(lines) ==
    IF lines = <<>> THEN <<>>
    ELSE IF Len(lines) = 1 THEN lines[1]
    ELSE lines[1] \o <<"\n">> \o JoinLines(Tail(lines))

\* len(re.findall(r'[a-zA-Z0-9]', line))
CountAlnum(line) == Cardinality({i \in 1..Len(line) : line[i] \in AlnumChars})

(***************************************************************************)
(* extract_text_from_pdf.                                                  *)
(*                                                                         *)
(* A document is [readable, pages]; a page is [none, text], what           *)
(* page.extract_text() returns (None, or a text).  PdfReader or            *)
(* extract_text raising on the bytes is readable = FALSE.                  *)
(***************************************************************************)
\* RatioExceeds with the comparison widened to >=
RatioAtLeast(clean, total) == RatioDen * clean >= RatioNum * total

\* ratio > 0.3: clean/total against the double 0.3 orders as the exact
\* fractions do (clean/total = 3/10 rounds to the literal's own double)
RatioExceeds(clean, total) == RatioDen * clean > RatioNum * total

\* KeepLine without the rule for short lines
KeepLineRatioOnly(line) ==
    LET clean_chars == CountAlnum(line)
        total_chars == Len(Strip(line))
    IN  total_chars > 0 /\ RatioExceeds(clean_chars, total_chars)

\* the filter's decision for one line (lines 60-68)
KeepLine(line) ==
    LET clean_chars == CountAlnum(line)
        total_chars == Len(Strip(line))
    IN  /\ total_chars > 0
        /\ \/ RatioExceeds(clean_chars, total_chars)
           \/ total_chars < ShortLen

\* cleaned_lines of one page (lines 55-68)
CleanedLines(page_text) == SelectSeq(SplitLines(page_text), KeepLine)

\* HasText as `if page_text is not None:`
HasTextNotNone(page) == ~page.none

\* `if page_text:` is false for None and for ""
HasText(page) == ~page.none /\ page.text # <<>>

\* the loop over pdf_reader.pages (lines 50-71)
RECURSIVE ExtractPages(_)
ExtractPages(pages) ==
    IF pages = <<>> THEN <<>>
    ELSE LET page == Head(pages)
             page_out == IF HasText(page)
                         THEN JoinLines(CleanedLines(page.text)) \o <<"\n">>
                         ELSE <<>>
         IN  page_out \o ExtractPages(Tail(pages))

NoExc == [cls |-> "none", status |-> 0, detail |-> <<>>]

HTTPException(status_code, detail) ==
    [cls |-> "HTTPException", status |-> status_code, detail |-> detail]

\* str(e): starlette's HTTPException prints "<status>: <detail>"
StrOfExc(e) ==
    IF e.cls = "HTTPException"
    THEN <<ToString(e.status), ": ">> \o e.detail
    ELSE e.detail

PdfReadError == [cls |-> "PdfReadError", status |-> 0, detail |-> <<"EOF marker not found">>]

\* extract_text_from_pdf: [exc, text]
extract_text_from_pdf(pdf_file) ==
    IF pdf_file.readable
    THEN [exc |-> NoExc, text |-> ExtractPages(pdf_file.pages)]
    ELSE [exc |-> HTTPException(400, <<"Error reading PDF: ">> \o StrOfExc(PdfReadError)),
          text |-> <<>>]

(***************************************************************************)
(* json.loads, for the JSON texts the model's outputs can hold: integers   *)
(* and arrays.  A parsed value is kept as its token sequence without       *)
(* whitespace, which determines the value.                                 *)
(***************************************************************************)
JsonSpace == {" ", "\t", "\n", "\r"}
Digits == {"0","1","2","3","4","5","6","7","8","9"}

RECURSIVE SkipWs(_, _)
SkipWs(s, i) ==
    IF i <= Len(s) /\ s[i] \in JsonSpace THEN SkipWs(s, i + 1) ELSE i

RECURSIVE SkipDigits(_, _)
SkipDigits(s, i) ==
    IF i <= Len(s) /\ s[i] \in Digits THEN SkipDigits(s, i + 1) ELSE i

ScanFail == [ok |-> FALSE, end |-> 0, val |-> <<>>]

\* NUMBER_RE, integer part: -?(?:0|[1-9]\d*)
ScanNumber(s, i) ==
    LET d == IF s[i] = "-" THEN i + 1 ELSE i
    IN  IF d > Len(s) \/ s[d] \notin Digits THEN ScanFail
        ELSE LET e == IF s[d] = "0" THEN d + 1 ELSE SkipDigits(s, d)
             IN  [ok |-> TRUE, end |-> e, val |-> SubSeq(s, i, e - 1)]

\* scan_once at index i, and JSONArray after its "[": [ok, end, val]
RECURSIVE ScanOnce(_, _)
RECURSIVE ScanItems(_, _, _)
ScanOnce(s, i) ==
    IF i > Len(s) THEN ScanFail
    ELSE IF s[i] = "["
    THEN LET j == SkipWs(s, i + 1)
         IN  IF j <= Len(s) /\ s[j] = "]"
             THEN [ok |-> TRUE, end |-> j + 1, val |-> <<"[", "]">>]
             ELSE ScanItems(s, j, <<"[">>)
    ELSE IF s[i] \in Digits \cup {"-"} THEN ScanNumber(s, i)
    ELSE ScanFail

ScanItems(s, i, acc) ==
    LET v == ScanOnce(s, i)
    IN  IF ~v.ok THEN ScanFail
        ELSE LET k == SkipWs(s, v.end)
             IN  IF k > Len(s) THEN ScanFail
                 ELSE IF s[k] = "]"
                 THEN [ok |-> TRUE, end |-> k + 1, val |-> acc \o v.val \o <<"]">>]
                 ELSE IF s[k] = ","
                 THEN ScanItems(s, SkipWs(s, k + 1), acc \o v.val \o <<",">>)
                 ELSE ScanFail

JSONDecodeError ==
    [cls |-> "JSONDecodeError", status |-> 0, detail |-> <<"Expecting value">>]

\* json.loads(s): [exc, val]; text after the value is "Extra data"
json_loads(s) ==
    LET v == ScanOnce(s, SkipWs(s, 1))
    IN  IF v.ok /\ SkipWs(s, v.end) = Len(s) + 1
        THEN [exc |-> NoExc, val |-> v.val]
        ELSE [exc |-> JSONDecodeError, val |-> <<>>]

(***************************************************************************)
(* The response normaliser (lines 170-178).                                *)
(***************************************************************************)
\* the backtick character, which a TLA+ string cannot hold
Backtick == "BACKTICK"

JsonFence == <<Backtick, Backtick, Backtick, "j", "s", "o", "n">>
Fence == <<Backtick, Backtick, Backtick>>

\* StripFences without the json fence's own branch
StripFencesBareOnly(text) ==
    LET t0 == Strip(text)
        t2 == IF StartsWith(t0, Fence) THEN DropFirst(t0, FenceLen) ELSE t0
        t3 == IF EndsWith(t2, Fence) THEN DropLast(t2, FenceLen) ELSE t2
    IN  t3

\* lines 170-176: strip, then drop one leading json fence, one leading bare
\* fence and one trailing fence
StripFences(text) ==
    LET t0 == Strip(text)
        t1 == IF StartsWith(t0, JsonFence) THEN DropFirst(t0, JsonFenceLen) ELSE t0
        t2 == IF StartsWith(t1, Fence) THEN DropFirst(t1, FenceLen) ELSE t1
        t3 == IF EndsWith(t2, Fence) THEN DropLast(t2, FenceLen) ELSE t2
    IN  t3

\* line 178
ParseReply(text) == json_loads(Strip(StripFences(text)))

(***************************************************************************)
(* Exceptions and responses.                                               *)
(***************************************************************************)
\* the classes an exception of class cls is an instance of
Bases(cls) ==
    IF cls = "JSONDecodeError" THEN {"JSONDecodeError", "ValueError", "Exception"}
    ELSE {cls, "Exception"}

IsInstance(e, cls) == e.cls # "none" /\ cls \in Bases(e.cls)

NoResponse == [status |-> 0, detail |-> <<>>, body |-> <<>>]

ErrorResponse(status_code, detail) ==
    [status |-> status_code, detail |-> detail, body |-> <<>>]

OkResponse(body) == [status |-> 200, detail |-> <<>>, body |-> body]

InvalidFileType ==
    <<"Invalid file type. Only PDF files (application/pdf) are supported. DOC/DOCX files are not supported.">>

InvalidJson == <<"AI returned invalid JSON format.">>

\* the except clauses of step 2 (lines 92-93)
ExtractHandler(e) ==
    IF IsInstance(e, "Exception")
    THEN ErrorResponse(500, <<"Failed to process PDF: ">> \o StrOfExc(e))
    ELSE NoResponse

\* ModelHandler with its except clauses in the other order
ModelHandlerBroadFirst(e) ==
    IF IsInstance(e, "Exception")
    THEN ErrorResponse(503, <<"AI Service Unavailable: ">> \o StrOfExc(e))
    ELSE IF IsInstance(e, "JSONDecodeError") THEN ErrorResponse(500, InvalidJson)
    ELSE NoResponse

\* the except clauses of step 5 (lines 180-184), tried in order
ModelHandler(e) ==
    IF IsInstance(e, "JSONDecodeError") THEN ErrorResponse(500, InvalidJson)
    ELSE IF IsInstance(e, "Exception")
    THEN ErrorResponse(503, <<"AI Service Unavailable: ">> \o StrOfExc(e))
    ELSE NoResponse

(***************************************************************************)
(* Requests.  pc is the handler's position:                                *)
(*   idle       not yet received                                           *)
(*   received   at line 82                                                 *)
(*   reading    suspended in `await resume_pdf.read()` (line 90)           *)
(*   extracted  resume_text computed (line 95)                             *)
(*   prompted   prompt built, before the model call (line 164)             *)
(*   called     generate_content has returned or raised (line 165)         *)
(*   done       the response is sent                                       *)
(* reads, extracts and model_calls count the request's calls of            *)
(* resume_pdf.read(), extract_text_from_pdf and generate_content.          *)
(***************************************************************************)
NoDoc == [readable |-> FALSE, pages |-> <<>>]
NoCompany == [none |-> TRUE, value |-> ""]
NoPrompt == [context |-> <<>>, company |-> "", job_description |-> "", resume_text |-> <<>>]
NoReply == [kind |-> "none", text |-> <<>>, exc |-> NoExc]

NewRequest ==
    [pc |-> "idle", content_type |-> "", resume_pdf |-> NoDoc,
     company_name |-> NoCompany, job_description |-> "",
     reads |-> 0, extracts |-> 0, model_calls |-> 0,
     resume_text |-> <<>>, prompt |-> NoPrompt, reply |-> NoReply,
     response |-> NoResponse]

Page(text) == [none |-> FALSE, text |-> text]
NonePage == [none |-> TRUE, text |-> <<>>]
Doc(pages) == [readable |-> TRUE, pages |-> pages]

TextReply(text) == [kind |-> "text", text |-> text, exc |-> NoExc]
RaiseReply(cls, msg) ==
    [kind |-> "raise", text |-> <<>>,
     exc |-> [cls |-> cls, status |-> 0, detail |-> <<msg>>]]

\* s[:n]
Take(s, n) == IF n >= Len(s) THEN s ELSE SubSeq(s, 1, n)

(***************************************************************************)
(* The inputs of the pipeline specification.                               *)
(***************************************************************************)
ContentTypes == {"application/pdf", "application/msword"}

PipelineDocs ==
    { NoDoc,
      Doc(<<NonePage, Page(<<>>)>>),
      Doc(<<Page(<<"a", "b", "\n", ".", ".", ".", ".", ".">>)>>) }

Companies == {NoCompany, [none |-> FALSE, value |-> "Acme Corp"]}

JobDescriptions == {"Looking for a backend engineer"}

PipelineReplies ==
    { TextReply(<<"[", "1", "]">>),
      TextReply(JsonFence \o <<"\n", "[", "1", "]", "\n">> \o Fence),
      TextReply(<<"[", "1">>),
      RaiseReply("ConnectError", "network unreachable"),
      RaiseReply("JSONDecodeError", "Expecting value") }

\* jobs_context.json as loaded, or [] when loading failed (lines 33-38)
LoadedContexts == {<<>>, [i \in 1..(ContextLimit + 1) |-> i]}

(***************************************************************************)
(* The handler analyze_resume, one action per step.                        *)
(***************************************************************************)
Set(r, rec) == requests' = [requests EXCEPT ![r] = rec]

\* a request arrives with its form fields
Receive(r) ==
    /\ requests[r].pc = "idle"
    /\ \E ct \in ContentTypes, pdf \in PipelineDocs,
          cn \in Companies, jd \in JobDescriptions :
           Set(r, [requests[r] EXCEPT !.pc = "received", !.content_type = ct,
                       !.resume_pdf = pdf, !.company_name = cn,
                       !.job_description = jd])
    /\ UNCHANGED JOBS_CONTEXT

\* Validate with the file read before its type is checked
ValidateAfterRead(r) ==
    /\ requests[r].pc = "received"
    /\ IF requests[r].content_type # "application/pdf"
       THEN Set(r, [requests[r] EXCEPT !.pc = "done", !.reads = @ + 1,
                        !.response = ErrorResponse(400, InvalidFileType)])
       ELSE Set(r, [requests[r] EXCEPT !.pc = "reading"])
    /\ UNCHANGED JOBS_CONTEXT

\* 1. Strict File Validation (lines 82-86), up to the await of line 90
Validate(r) ==
    /\ requests[r].pc = "received"
    /\ IF requests[r].content_type # "application/pdf"
       THEN Set(r, [requests[r] EXCEPT !.pc = "done",
                        !.response = ErrorResponse(400, InvalidFileType)])
       ELSE Set(r, [requests[r] EXCEPT !.pc = "reading"])
    /\ UNCHANGED JOBS_CONTEXT

\* 2. Extract Text from Resume (lines 89-93)
Extract(r) ==
    /\ requests[r].pc = "reading"
    /\ LET got == extract_text_from_pdf(requests[r].resume_pdf)
           q == [requests[r] EXCEPT !.reads = @ + 1, !.extracts = @ + 1]
       IN  IF got.exc.cls # "none"
           THEN Set(r, [q EXCEPT !.pc = "done", !.response = ExtractHandler(got.exc)])
           ELSE Set(r, [q EXCEPT !.pc = "extracted", !.resume_text = got.text])
    /\ UNCHANGED JOBS_CONTEXT

\* BuildPrompt taking its entries out of JOBS_CONTEXT
BuildPromptConsuming(r) ==
    /\ requests[r].pc = "extracted"
    /\ LET q == requests[r]
           cn == q.company_name
       IN  Set(r, [q EXCEPT !.pc = "prompted",
                       !.prompt = [context |-> Take(JOBS_CONTEXT, ContextLimit),
                                   company |-> IF ~cn.none /\ cn.value # ""
                                               THEN cn.value ELSE "Not Specified",
                                   job_description |-> q.job_description,
                                   resume_text |-> q.resume_text]])
    /\ JOBS_CONTEXT' = DropFirst(JOBS_CONTEXT, ContextLimit)

\* 3. Prepare Context, 4. Construct the Prompt (lines 96-161)
BuildPrompt(r) ==
    /\ requests[r].pc = "extracted"
    /\ LET q == requests[r]
           cn == q.company_name
       IN  Set(r, [q EXCEPT !.pc = "prompted",
                       !.prompt = [context |-> Take(JOBS_CONTEXT, ContextLimit),
                                   company |-> IF ~cn.none /\ cn.value # ""
                                               THEN cn.value ELSE "Not Specified",
                                   job_description |-> q.job_description,
                                   resume_text |-> q.resume_text]])
    /\ UNCHANGED JOBS_CONTEXT

\* 5. Call Gemini API (lines 165-167): the call returns a text or raises
CallModelWith(r, replies) ==
    /\ requests[r].pc = "prompted"
    /\ \E reply \in replies :
           Set(r, [requests[r] EXCEPT !.pc = "called", !.model_calls = @ + 1,
                       !.reply = reply])
    /\ UNCHANGED JOBS_CONTEXT

\* CallModel answering from an earlier request with the same prompt
CallModelCached(r) ==
    LET hits == {o \in DOMAIN requests \ {r} :
                    /\ requests[o].pc \in {"called", "done"}
                    /\ requests[o].model_calls > 0
                    /\ requests[o].prompt = requests[r].prompt}
    IN  IF hits = {} THEN CallModelWith(r, PipelineReplies)
        ELSE /\ requests[r].pc = "prompted"
             /\ \E o \in hits :
                    Set(r, [requests[r] EXCEPT !.pc = "called",
                                !.reply = requests[o].reply])
             /\ UNCHANGED JOBS_CONTEXT

CallModel(r) == CallModelWith(r, PipelineReplies)

\* the response of step 5 to what the call gave (lines 170-184)
ResponseTo(reply) ==
    IF reply.kind = "raise" THEN ModelHandler(reply.exc)
    ELSE LET parsed == ParseReply(reply.text)
         IN  IF parsed.exc.cls # "none" THEN ModelHandler(parsed.exc)
             ELSE OkResponse(parsed.val)

Respond(r) ==
    /\ requests[r].pc = "called"
    /\ Set(r, [requests[r] EXCEPT !.pc = "done",
                   !.response = ResponseTo(requests[r].reply)])
    /\ UNCHANGED JOBS_CONTEXT

Init ==
    /\ JOBS_CONTEXT \in LoadedContexts
    /\ requests = [r \in 1..NumRequests |-> NewRequest]

Next ==
    \/ \E r \in DOMAIN requests : Receive(r)
    \/ \E r \in DOMAIN requests : Validate(r)
    \/ \E r \in DOMAIN requests : Extract(r)
    \/ \E r \in DOMAIN requests : BuildPrompt(r)
    \/ \E r \in DOMAIN requests : CallModel(r)
    \/ \E r \in DOMAIN requests : Respond(r)

Spec == Init /\ [][Next]_vars

(***************************************************************************)
(* The extractor on generated documents.  A generated line is p spaces,    *)
(* a alphanumeric characters, d separator characters and p spaces; a       *)
(* generated document has at most MaxPages pages and at most two lines in  *)
(* all, on one page or on two, its other pages without text.               *)
(***************************************************************************)
Rep(c, n) == [i \in 1..n |-> c]

LineOf(a, d, p) == Rep(" ", p) \o Rep("a", a) \o Rep(".", d) \o Rep(" ", p)

GeneratedLines ==
    {LineOf(a, d, p) : a \in 0..MaxAlnum, d \in 0..MaxOther, p \in 0..MaxPad}

\* k pages, none with text but those `at` gives
PagesWith(k, at) ==
    [i \in 1..k |-> IF i \in DOMAIN at THEN Page(at[i]) ELSE NonePage]

\* the generated documents, by the places of their lines
NoLineDoc(k) == Doc(PagesWith(k, <<>>))
OneLineDoc(k, i, l) == Doc(PagesWith(k, i :> l))
OnePageDoc(k, i, l1, l2) == Doc(PagesWith(k, i :> (l1 \o <<"\n">> \o l2)))
TwoPageDoc(k, i, j, l1, l2) == Doc(PagesWith(k, (i :> l1) @@ (j :> l2)))

\* a request suspended in the read of line 90
Reading(pdf) ==
    [NewRequest EXCEPT !.pc = "reading", !.content_type = "application/pdf",
         !.resume_pdf = pdf, !.job_description = "Looking for a backend engineer"]

InitExtract ==
    /\ JOBS_CONTEXT = <<>>
    /\ \/ \E k \in 0..MaxPages : requests = <<Reading(NoLineDoc(k))>>
       \/ \E k \in 1..MaxPages, l \in GeneratedLines :
              \E i \in 1..k : requests = <<Reading(OneLineDoc(k, i, l))>>
       \/ \E k \in 1..MaxPages, l1 \in GeneratedLines, l2 \in GeneratedLines :
              \E i \in 1..k : requests = <<Reading(OnePageDoc(k, i, l1, l2))>>
       \/ \E k \in 2..MaxPages, l1 \in GeneratedLines, l2 \in GeneratedLines :
              \E i \in 1..k : \E j \in (i + 1)..k :
                  requests = <<Reading(TwoPageDoc(k, i, j, l1, l2))>>

NextExtract == \E r \in DOMAIN requests : Extract(r)

SpecExtract == InitExtract /\ [][NextExtract]_vars

(***************************************************************************)
(* The normaliser on generated model outputs: request 1 is given a text,   *)
(* request 2 the same text inside a json fence.                            *)
(***************************************************************************)
TextChars == {Backtick, " ", "[", "]", "1"}

GeneratedTexts == UNION {[1..n -> TextChars] : n \in 0..MaxTextLen}

\* text inside a json fence, `inner` between fence and text, `outer` around
Fenced(text, inner, outer) ==
    outer \o JsonFence \o inner \o text \o inner \o Fence \o outer

FencePads == {<<>>, <<"\n">>, <<" ">>}

SampleDoc == Doc(<<Page(<<"a", "b">>)>>)

\* a request whose model call has given `reply` (line 167)
Called(reply) ==
    [NewRequest EXCEPT !.pc = "called", !.content_type = "application/pdf",
         !.resume_pdf = SampleDoc,
         !.job_description = "Looking for a backend engineer",
         !.reads = 1, !.extracts = 1, !.model_calls = 1,
         !.resume_text = ExtractPages(SampleDoc.pages),
         !.prompt = [context |-> <<>>, company |-> "Not Specified",
                     job_description |-> "Looking for a backend engineer",
                     resume_text |-> ExtractPages(SampleDoc.pages)],
         !.reply = reply]

InitNorm ==
    /\ JOBS_CONTEXT = <<>>
    /\ \E text \in GeneratedTexts, inner \in FencePads, outer \in FencePads :
           requests = << Called(TextReply(text)),
                         Called(TextReply(Fenced(text, inner, outer))) >>

NextNorm == \E r \in DOMAIN requests : Respond(r)

SpecNorm == InitNorm /\ [][NextNorm]_vars

(***************************************************************************)
(* The pipeline on documents without text: every page gives None or "".    *)
(***************************************************************************)
TextlessPages == {NonePage, Page(<<>>)}

TextlessDocs == {Doc(pages) : pages \in UNION {[1..n -> TextlessPages] : n \in 0..MaxPages}}

InitTextless ==
    /\ JOBS_CONTEXT \in LoadedContexts
    /\ \E pdf \in TextlessDocs : requests = <<Reading(pdf)>>

NextTextless ==
    \/ \E r \in DOMAIN requests : Extract(r)
    \/ \E r \in DOMAIN requests : BuildPrompt(r)
    \/ \E r \in DOMAIN requests : CallModel(r)
    \/ \E r \in DOMAIN requests : Respond(r)

SpecTextless == InitTextless /\ [][NextTextless]_vars

(***************************************************************************)
(* Properties.                                                             *)
(***************************************************************************)
Range(s) == {s[i] : i \in DOMAIN s}

Requests == {requests[r] : r \in DOMAIN requests}

IsPdfUpload(q) == q.content_type = "application/pdf"

\* the request got past validation and extraction
PassedExtraction(q) == IsPdfUpload(q) /\ q.resume_pdf.readable

\* C1: a request whose upload declares application/pdf but cannot be read as a
\* PDF is answered with status 400, and the external model is never called for it.
C1_UnreadablePdfIs400 ==
    \A q \in Requests :
        (q.pc = "done" /\ IsPdfUpload(q) /\ ~q.resume_pdf.readable)
            => (q.response.status = 400 /\ q.model_calls = 0)

\* C2: a request whose upload declares any content type other than
\* application/pdf ends in status 400 with the only-PDF message as soon as it is
\* validated: its bytes are never read, extract_text_from_pdf is never invoked
\* and the external model is never called.
C2_WrongTypeRejectedFirst ==
    \A q \in Requests :
        (q.pc \notin {"idle", "received"} /\ ~IsPdfUpload(q))
            => /\ q.pc = "done"
               /\ q.response = ErrorResponse(400, InvalidFileType)
               /\ q.reads = 0 /\ q.extracts = 0 /\ q.model_calls = 0

C2_Witness ==
    \E q \in Requests :
        /\ q.pc = "done" /\ q.content_type = "application/msword"
        /\ q.response.status = 400 /\ q.reads = 0

BothAnswered ==
    /\ Len(requests) = 2
    /\ requests[1].pc = "done" /\ requests[2].pc = "done"

\* the model's output, fences and whitespace stripped, is not valid JSON
InvalidOutput(q) ==
    /\ q.reply.kind = "text"
    /\ json_loads(Strip(StripFences(q.reply.text))).exc.cls # "none"

\* C3: when the model call returned and its output, stripped of whitespace and
\* fence markers, is not valid JSON (empty output included), the response is
\* status 500 with the detail 'AI returned invalid JSON format.': never 503,
\* never 200, never no response at all.
C3_InvalidJsonIs500 ==
    \A q \in Requests :
        (q.pc = "done" /\ InvalidOutput(q))
            => q.response = ErrorResponse(500, InvalidJson)

C3_Witness ==
    /\ BothAnswered
    /\ requests[1].reply.text = <<>>
    /\ requests[1].response = ErrorResponse(500, InvalidJson)
    /\ InvalidOutput(requests[2])
    /\ requests[2].response = ErrorResponse(500, InvalidJson)

\* C4: when the call to the external model raises, the response is status 503
\* and its detail holds the text of the error raised; never 400, 500 or 200.
C4_ModelFailureIs503 ==
    \A q \in Requests :
        (q.pc = "done" /\ q.reply.kind = "raise")
            => /\ q.response.status = 503
               /\ \E i \in DOMAIN q.response.detail :
                      q.response.detail[i] = q.reply.exc.detail[1]

\* C5: a request that passed validation and extraction invokes the external
\* model exactly once, a request rejected there never; the model is not invoked
\* again after a failed call or parse, and a request with the inputs of an
\* earlier one invokes it again.
C5_ModelCalledOncePerRequest ==
    \A q \in Requests :
        /\ q.model_calls =
               IF q.pc \in {"called", "done"} /\ PassedExtraction(q) THEN 1 ELSE 0
        /\ (q.model_calls = 1) = (q.reply.kind # "none")

SameInputs(p, q) ==
    /\ p.content_type = q.content_type
    /\ p.resume_pdf = q.resume_pdf
    /\ p.company_name = q.company_name
    /\ p.job_description = q.job_description

C5_Witness ==
    \E a \in DOMAIN requests, b \in DOMAIN requests :
        /\ a # b
        /\ requests[a].pc = "done" /\ requests[b].pc = "done"
        /\ SameInputs(requests[a], requests[b])
        /\ requests[a].response.status \in {500, 503}
        /\ requests[a].model_calls = 1 /\ requests[b].model_calls = 1

\* two finished requests with the same inputs and the same reply of the model
\* were answered alike, from the same prompt
AnsweredAlike ==
    \A p \in Requests, q \in Requests :
        (p.pc = "done" /\ q.pc = "done" /\ SameInputs(p, q) /\ p.reply = q.reply)
            => (p.response = q.response /\ p.prompt = q.prompt)

\* every prompt built holds the first ContextLimit entries of the job context
PromptsFromContext ==
    \A q \in Requests :
        q.pc \in {"prompted", "called"} \/ (q.pc = "done" /\ q.model_calls = 1)
            => q.prompt.context = Take(JOBS_CONTEXT, ContextLimit)

\* C6: request handling never modifies the job context loaded at startup, and
\* a request's response is determined by its own inputs, that context and the
\* model's reply to it, whatever other requests ran before or alongside it.
C6_ContextReadOnly ==
    /\ [][JOBS_CONTEXT' = JOBS_CONTEXT]_vars
    /\ [](AnsweredAlike /\ PromptsFromContext)

C6_Witness ==
    /\ Len(JOBS_CONTEXT) > ContextLimit
    /\ \E a \in DOMAIN requests, b \in DOMAIN requests :
           /\ a # b
           /\ requests[a].pc = "done" /\ requests[b].pc = "done"
           /\ SameInputs(requests[a], requests[b])
           /\ requests[a].reply = requests[b].reply
           /\ requests[a].response.status = 200
           /\ Len(requests[a].prompt.context) = ContextLimit

\* C7 as stated: for every text s, the normaliser gives s inside a json fence
\* (with or without whitespace around it) the outcome it gives s alone.
C7_FencedLikeBare == BothAnswered => requests[1].response = requests[2].response

\* the text, trimmed, neither begins nor ends with a fence marker of its own
Unfenced(text) ==
    /\ ~StartsWith(Strip(text), Fence)
    /\ ~EndsWith(Strip(text), Fence)

\* C7 amended: for every text s that, trimmed, neither begins nor ends with a
\* fence marker, the normaliser gives s inside a json fence the outcome it
\* gives s alone: the same value, or the same 500.
C7_FencedLikeBareUnfenced ==
    (BothAnswered /\ Unfenced(requests[1].reply.text))
        => requests[1].response = requests[2].response

C7_Witness ==
    /\ BothAnswered
    /\ requests[1].reply.text = <<"[", "1", "]">>
    /\ requests[2].reply.text = Fenced(<<"[", "1", "]">>, <<"\n">>, <<>>)
    /\ requests[1].response = OkResponse(<<"[", "1", "]">>)
    /\ requests[2].response = OkResponse(<<"[", "1", "]">>)

(***************************************************************************)
(* The lines of a document and of the extractor's output.                  *)
(***************************************************************************)
RECURSIVE PageLines(_)
PageLines(pages) ==
    IF pages = <<>> THEN <<>>
    ELSE (IF Head(pages).none THEN <<>> ELSE SplitLines(Head(pages).text))
         \o PageLines(Tail(pages))

InputLines(q) == PageLines(q.resume_pdf.pages)
OutputLines(q) == SplitLines(q.resume_text)

TrimmedLen(line) == Len(Strip(line))

\* the line's ratio of alphanumeric characters to trimmed length exceeds 0.3
HighRatio(line) == TrimmedLen(line) > 0 /\ 10 * CountAlnum(line) > 3 * TrimmedLen(line)

\* the ratio is at most 0.3
LowRatio(line) == TrimmedLen(line) > 0 /\ 10 * CountAlnum(line) <= 3 * TrimmedLen(line)

Extracted(q) == q.pc = "extracted"

\* the output's lines follow the order of the document's lines
InDocumentOrder(q) ==
    LET NonEmpty(line) == line # <<>>
        Retained(line) == line # <<>> /\ line \in Range(OutputLines(q))
    IN  SelectSeq(OutputLines(q), NonEmpty) = SelectSeq(InputLines(q), Retained)

\* C8: every line whose ratio of alphanumeric characters to trimmed length
\* exceeds 0.3 is in the output; every line with ratio at most 0.3 and trimmed
\* length at least 5 is not; retained lines keep their order within a page and
\* pages follow each other in document order.
C8_LineFilter ==
    \A q \in Requests :
        Extracted(q) =>
            /\ \A line \in Range(InputLines(q)) :
                   /\ HighRatio(line) => line \in Range(OutputLines(q))
                   /\ (LowRatio(line) /\ TrimmedLen(line) >= 5)
                          => line \notin Range(OutputLines(q))
            /\ InDocumentOrder(q)

C8_Witness ==
    \E q \in Requests :
        /\ Extracted(q) /\ Len(q.resume_pdf.pages) = 2
        /\ HasText(q.resume_pdf.pages[1]) /\ HasText(q.resume_pdf.pages[2])
        /\ LET first == q.resume_pdf.pages[1].text
               second == q.resume_pdf.pages[2].text
           IN  /\ 10 * CountAlnum(first) = 3 * TrimmedLen(first)
               /\ TrimmedLen(first) = 10
               /\ HighRatio(second) /\ TrimmedLen(second) >= 5
               /\ q.resume_text = <<"\n">> \o second \o <<"\n">>

\* every page of the document gives no text
Textless(q) ==
    /\ q.resume_pdf.readable
    /\ \A i \in DOMAIN q.resume_pdf.pages :
           q.resume_pdf.pages[i].none \/ q.resume_pdf.pages[i].text = <<>>

\* C9: for a readable PDF of any number of pages, none of which gives text,
\* extract_text_from_pdf returns the empty string without an error, and the
\* request goes on to the prompt and the model call: it does not end in the
\* 400 or the 500 of the extraction step.
C9_TextlessPdfGoesOn ==
    \A q \in Requests :
        (Textless(q) /\ q.extracts > 0)
            => /\ q.resume_text = <<>>
               /\ q.pc \in {"extracted", "prompted", "called", "done"}
               /\ q.pc \in {"prompted", "called", "done"} => q.prompt.resume_text = <<>>
               /\ q.pc = "done" =>
                      /\ q.model_calls = 1
                      /\ q.response.status \in {200, 500, 503}
                      /\ q.response.status = 500 => q.response.detail = InvalidJson

C9_Witness ==
    \E q \in Requests :
        /\ Textless(q) /\ Len(q.resume_pdf.pages) = MaxPages
        /\ \E i \in DOMAIN q.resume_pdf.pages : ~q.resume_pdf.pages[i].none
        /\ q.pc = "done" /\ q.model_calls = 1 /\ q.response.status = 200

\* C10 as stated: every line whose trimmed length is under 5 (0, 1, 2, 3 or 4)
\* is retained in the output whatever its ratio, blank lines included.
C10_ShortLinesRetained ==
    \A q \in Requests :
        Extracted(q) =>
            \A line \in Range(InputLines(q)) :
                TrimmedLen(line) < 5 => line \in Range(OutputLines(q))

\* the lines of the page texts that have text, page by page
RECURSIVE LinesPerPage(_)
LinesPerPage(pages) ==
    IF pages = <<>> THEN <<>>
    ELSE (IF Head(pages).none \/ Head(pages).text = <<>>
          THEN <<>> ELSE <<SplitLines(Head(pages).text)>>)
         \o LinesPerPage(Tail(pages))

RECURSIVE Sum(_)
Sum(ns) == IF ns = <<>> THEN 0 ELSE Head(ns) + Sum(Tail(ns))

\* the number of lines the output has when, of a document whose lines all
\* have trimmed length under 5, exactly those of length 1 to 4 are retained:
\* a page with text ends in a newline, retained lines are joined by newlines
OutputLineCount(q) ==
    LET pagelines == LinesPerPage(q.resume_pdf.pages)
        NonBlank(line) == TrimmedLen(line) > 0
        kept == [i \in DOMAIN pagelines |-> Len(SelectSeq(pagelines[i], NonBlank))]
    IN  1 + Sum([i \in DOMAIN kept |-> IF kept[i] = 0 THEN 1 ELSE kept[i]])

\* C10 amended: every line whose trimmed length is 1, 2, 3 or 4 is retained in
\* the output whatever its ratio; a line of trimmed length 0 (empty or
\* whitespace only) is dropped.
C10_ShortNonBlankRetained ==
    \A q \in Requests :
        Extracted(q) =>
            /\ \A line \in Range(InputLines(q)) :
                   /\ TrimmedLen(line) \in 1..4 => line \in Range(OutputLines(q))
                   /\ (TrimmedLen(line) = 0 /\ line # <<>>)
                          => line \notin Range(OutputLines(q))
            /\ (\A line \in Range(InputLines(q)) : TrimmedLen(line) < 5)
                   => Len(OutputLines(q)) = OutputLineCount(q)

C10_Witness ==
    \E q \in Requests :
        /\ Extracted(q) /\ Len(q.resume_pdf.pages) = 1
        /\ InputLines(q) = << <<".", ".", ".", ".">>, <<>> >>
        /\ q.resume_text = <<".", ".", ".", ".", "\n">>

====
